---- MODULE Spec2Model ----
(***************************************************************************)
(* Hypermania "synapse" rendezvous server.                                 *)
(*                                                                         *)
(* The Session Directory (rooms, clients) of main.rs with its three        *)
(* session-control handlers create_room / join_room / leave_room and the   *)
(* get_peer lookup, and the hole-punch coordinator loop of punch.rs with   *)
(* its own address registry (punch_clients, addr_to_client); the relay loop *)
(* udp_server of relay.rs with its registry (udp_addrs, addr_to_client);   *)
(* and the same tasks followed from await point to await point, with the   *)
(* guards of the two RwLocks.                                              *)
(***************************************************************************)
EXTENDS Integers, Sequences, FiniteSets, TLC

(***************************************************************************)
(* Bounds of the model.                                                    *)
(***************************************************************************)
\* Client ids that session-control requests carry: 1..NumClients.
NumClients == 2
\* create_room is not called once this many rooms exist.
MaxRooms == 2

(***************************************************************************)
(* Option<T>: None is the empty sequence, Some(x) the one-element one.     *)
(***************************************************************************)
None == <<>>
Some(x) == <<x>>
IsSome(o) == o # None
Unwrap(o) == o[1]

ClientIds == 1..NumClients
\* Room ids a request path can name: every id create_room can hand out.
RoomIds == 0..(MaxRooms - 1)

(***************************************************************************)
(* Request bodies carry the client id as a decimal string, here a sequence *)
(* of characters: the digits 0..9 and NonDigit for any other character.    *)
(***************************************************************************)
NonDigit == 10
RECURSIVE DecimalValue(_)
DecimalValue(s) ==
    IF s = <<>> THEN 0
    ELSE 10 * DecimalValue(SubSeq(s, 1, Len(s) - 1)) + s[Len(s)]

\* str::parse::<u128>: Ok for a non-empty string of digits (leading zeros
\* allowed), Err otherwise.
ParseU128(s) ==
    IF s # <<>> /\ \A i \in 1..Len(s) : s[i] \in 0..9
    THEN Some(DecimalValue(s))
    ELSE None

\* The client_id strings the model sends: one per client id and one
\* unparsable string.
ClientStrings ==
    {<<c>> : c \in ClientIds} \cup {<<NonDigit>>}

VARIABLES
    rooms,          \* AppStateInner.rooms   : RoomId  -> RoomState {host, client}
    clients,        \* AppStateInner.clients : ClientId -> ClientState {room}
    last,           \* the last session-control request and the response returned
    punch_clients,  \* punch_coordinator: ClientId -> UdpClientState {udp_addr, last_seen}
    addr_to_client, \* punch_coordinator: SocketAddr -> ClientId
    now,            \* the clock behind Instant::now()
    next_tick,      \* the deadline of cleanup_tick
    rx,             \* what the latest iteration of the punch loop woke up on
    sent,           \* the datagrams that iteration sent, in order
    udp_addrs,      \* relay.rs: ClientId -> UdpClientState (udp_state.udp_addrs)
    udp_addr_to_client, \* relay.rs: SocketAddr -> ClientId (udp_state.addr_to_client)
    relay_running,  \* udp_server has not returned
    relay_rx,       \* what the latest iteration of the relay loop woke up on
    relay_sent,     \* the datagrams that iteration sent, in order
    inner,          \* the RwLock around the Session Directory: who holds a guard
    udp_state,      \* the RwLock around the relay's registry: the guard held
    pc,             \* where each UDP task stands in its loop body
    punch_local,    \* punch_coordinator's locals across its await points
    relay_local     \* udp_server's locals across its await points

dirVars == <<rooms, clients, last>>
punchVars == <<punch_clients, addr_to_client, now, next_tick, rx, sent>>
taskVars == <<inner, udp_state, pc, punch_local, relay_local>>
relayVars == <<udp_addrs, udp_addr_to_client, relay_running, relay_rx, relay_sent>>
vars ==
    <<rooms, clients, last, punch_clients, addr_to_client, now, next_tick, rx, sent,
      udp_addrs, udp_addr_to_client, relay_running, relay_rx, relay_sent,
      inner, udp_state, pc, punch_local, relay_local>>

(***************************************************************************)
(* HashMap helpers.                                                        *)
(***************************************************************************)
MapInsert(m, k, v) == [x \in (DOMAIN m) \cup {k} |-> IF x = k THEN v ELSE m[x]]
MapRemove(m, k) == [x \in (DOMAIN m) \ {k} |-> m[x]]
EmptyMap == [x \in {} |-> 0]

RoomState(host, client) == [host |-> host, client |-> client]
ClientState(room_id) == [room |-> room_id]

Response(op, client_id, room_id, result) ==
    [op |-> op, client |-> client_id, room |-> room_id, result |-> result]

(***************************************************************************)
(* AppStateInner::get_peer                                                 *)
(***************************************************************************)
get_peer(client_id) ==
    IF client_id \notin DOMAIN clients THEN None
    ELSE LET room_id == clients[client_id].room IN
         IF room_id \notin DOMAIN rooms THEN None
         ELSE LET room == rooms[room_id] IN
              IF room.client = None THEN None
              ELSE IF room.host = client_id THEN Some(Unwrap(room.client))
                   ELSE Some(room.host)

(***************************************************************************)
(* main: both maps start empty.                                            *)
(***************************************************************************)
DirInit ==
    /\ rooms = EmptyMap
    /\ clients = EmptyMap
    /\ last = Response("none", None, None, "none")

\* clients.entry(client_id).and_modify(|e| e.room = room_id)
\*        .or_insert(ClientState::new(room_id))
EntrySetRoom(m, client_id, room_id) ==
    IF client_id \in DOMAIN m
    THEN [m EXCEPT ![client_id].room = room_id]
    ELSE MapInsert(m, client_id, ClientState(room_id))

\* let room_id = state.rooms.len() as u64;
NewRoomId(m) == Cardinality(DOMAIN m)

(***************************************************************************)
(* create_room                                                             *)
(***************************************************************************)
create_room(req) ==
    LET parsed == ParseU128(req) IN
    IF parsed = None
    THEN /\ last' = Response("create_room", None, None, "BadRequest")
         /\ UNCHANGED <<rooms, clients>>
    ELSE LET client_id == Unwrap(parsed)
             room_id == NewRoomId(rooms)
         IN /\ rooms' = MapInsert(rooms, room_id, RoomState(client_id, None))
            /\ clients' = EntrySetRoom(clients, client_id, room_id)
            /\ last' = Response("create_room", Some(client_id), Some(room_id), "Ok")

(***************************************************************************)
(* join_room                                                               *)
(***************************************************************************)
\* A faulty join_room that never finds the room full.
RoomIsFull_Never(room) == FALSE

\* if room.client.is_some() { return Err(Conflict("room is full")) }
RoomIsFull(room) == IsSome(room.client)

join_room(room_id, req) ==
    LET parsed == ParseU128(req) IN
    IF parsed = None
    THEN /\ last' = Response("join_room", None, Some(room_id), "BadRequest")
         /\ UNCHANGED <<rooms, clients>>
    ELSE LET client_id == Unwrap(parsed) IN
         IF client_id \in DOMAIN clients /\ clients[client_id].room # room_id
         THEN /\ last' = Response("join_room", Some(client_id), Some(room_id), "Conflict")
              /\ UNCHANGED <<rooms, clients>>
         ELSE IF room_id \notin DOMAIN rooms
         THEN /\ last' = Response("join_room", Some(client_id), Some(room_id), "NotFound")
              /\ UNCHANGED <<rooms, clients>>
         ELSE IF RoomIsFull(rooms[room_id])
         THEN /\ last' = Response("join_room", Some(client_id), Some(room_id), "Conflict")
              /\ UNCHANGED <<rooms, clients>>
         ELSE /\ rooms' = [rooms EXCEPT ![room_id].client = Some(client_id)]
              /\ clients' = EntrySetRoom(clients, client_id, room_id)
              /\ last' = Response("join_room", Some(client_id), Some(room_id), "Ok")

(***************************************************************************)
(* leave_room                                                              *)
(***************************************************************************)
\* A faulty leave_room whose host always takes the room down with it.
HostLeaves_AlwaysRemove(m, cur_room) == MapRemove(m, cur_room)

\* The host leaves: match room.client { Some(peer) => the peer becomes the
\* host and the guest slot is cleared, None => the room is removed }.
HostLeaves(m, cur_room) ==
    IF IsSome(m[cur_room].client)
    THEN [m EXCEPT ![cur_room] = RoomState(Unwrap(m[cur_room].client), None)]
    ELSE MapRemove(m, cur_room)

leave_room(req) ==
    LET parsed == ParseU128(req) IN
    IF parsed = None
    THEN /\ last' = Response("leave_room", None, None, "BadRequest")
         /\ UNCHANGED <<rooms, clients>>
    ELSE LET client_id == Unwrap(parsed) IN
         IF client_id \notin DOMAIN clients
         THEN /\ last' = Response("leave_room", Some(client_id), None, "NotFound")
              /\ UNCHANGED <<rooms, clients>>
         ELSE LET cur_room == clients[client_id].room IN
              IF cur_room \notin DOMAIN rooms
              THEN /\ last' = Response("leave_room", Some(client_id), None, "NotFound")
                   /\ UNCHANGED <<rooms, clients>>
              ELSE LET room == rooms[cur_room] IN
                   IF room.client = Some(client_id)
                   THEN /\ rooms' = [rooms EXCEPT ![cur_room].client = None]
                        /\ clients' = MapRemove(clients, client_id)
                        /\ last' = Response("leave_room", Some(client_id), None, "Ok")
                   ELSE IF client_id # room.host
                   THEN /\ last' = Response("leave_room", Some(client_id), None, "Internal")
                        /\ UNCHANGED <<rooms, clients>>
                   ELSE /\ rooms' = HostLeaves(rooms, cur_room)
                        /\ clients' = MapRemove(clients, client_id)
                        /\ last' = Response("leave_room", Some(client_id), None, "Ok")

(***************************************************************************)
(* Socket addresses and the wire codec of punch.rs.                        *)
(***************************************************************************)
SocketAddrV4(octets, port) == [family |-> 4, octets |-> octets, port |-> port]
SocketAddrV6(octets, port) == [family |-> 6, octets |-> octets, port |-> port]

\* The source addresses datagrams arrive from: one IPv4 and one IPv6 endpoint.
Addrs ==
    { SocketAddrV4(<<203, 0, 113, 7>>, 40000),
      SocketAddrV6(<<32, 1, 13, 184, 0, 0, 0, 0, 0, 0, 0, 0, 0, 0, 0, 9>>, 513) }

\* u16::to_be_bytes
U16ToBeBytes(n) == <<n \div 256, n % 256>>

\* OutgoingPacketType
FoundPeer == 1
WaitingPeer == 2

\* encode_waiting: the tag byte alone.
encode_waiting == <<WaitingPeer>>

\* encode_socket: tag, address family, the address octets, the port (big endian).
encode_socket(peer) ==
    <<FoundPeer, peer.family>> \o peer.octets \o U16ToBeBytes(peer.port)

\* u128::from_be_bytes
RECURSIVE U128FromBeBytes(_)
U128FromBeBytes(bytes) ==
    IF bytes = <<>> THEN 0
    ELSE 256 * U128FromBeBytes(SubSeq(bytes, 1, Len(bytes) - 1)) + bytes[Len(bytes)]

\* The length of a client id on the wire.
IdLen == 16

\* parse_client_id: None for fewer than 16 bytes, else the first 16 bytes as a
\* big-endian integer.
parse_client_id(buf) ==
    IF Len(buf) < IdLen THEN None
    ELSE Some(U128FromBeBytes(SubSeq(buf, 1, IdLen)))

\* u128::to_be_bytes of a client id below 256, as the clients send it.
IdBytes(c) == [i \in 1..IdLen |-> IF i = IdLen THEN c ELSE 0]

\* The clients that send punch probes.
PunchIds == {1, 2}

\* The payloads that arrive on the punch socket: each prober's 16-byte id, one
\* id followed by a stray byte, and a payload one byte short of an id.
PunchPayloads ==
    {IdBytes(c) : c \in PunchIds}
        \cup {IdBytes(1) \o <<255>>, SubSeq(IdBytes(1), 1, IdLen - 1)}

(***************************************************************************)
(* punch_coordinator                                                       *)
(***************************************************************************)
\* STALE_AFTER and CLEANUP_EVERY, in seconds.
STALE_AFTER == 60
CLEANUP_EVERY == 5

\* The clock is read at its start, one second later (before the first cleanup
\* tick is due) and then at whole seconds from STALE_AFTER + 1 to MaxTime, so
\* that one sweep meets an entry idle for exactly STALE_AFTER beside one idle
\* for longer.
MaxTime == 61
Instants == {0, 1} \cup ((STALE_AFTER + 1)..MaxTime)

UdpClientState(udp_addr, last_seen) == [udp_addr |-> udp_addr, last_seen |-> last_seen]

NoAddr == [family |-> 0, octets |-> <<>>, port |-> 0]
Woke(kind, src, payload) == [kind |-> kind, src |-> src, payload |-> payload]
Datagram(dst, pkt) == [dst |-> dst, pkt |-> pkt]

\* Both maps start empty; cleanup_tick's first tick is consumed before the loop,
\* so the next one is due CLEANUP_EVERY later.
PunchInit ==
    /\ punch_clients = EmptyMap
    /\ addr_to_client = EmptyMap
    /\ now = 0
    /\ next_tick = CLEANUP_EVERY
    /\ rx = Woke("none", NoAddr, <<>>)
    /\ sent = <<>>

\* select! { biased; ... }: the timer branch is polled first.
TimerReady == now >= next_tick

\* A select! without `biased;`: the receive branch may be taken while the
\* cleanup tick is due.
RecvBranchPolled_Unbiased == TRUE

\* The receive branch is polled only when the timer branch is not ready.
RecvBranchPolled == ~TimerReady

\* now.duration_since(ep.last_seen) > STALE_AFTER
IsStale(ep, t) == t - ep.last_seen > STALE_AFTER

StaleIds(m, t) == {c \in DOMAIN m : IsStale(m[c], t)}

\* The cleanup branch: every stale client leaves punch_clients, and the address
\* it was registered under leaves addr_to_client.
PunchSweep ==
    /\ TimerReady
    /\ LET stale_ids == StaleIds(punch_clients, now)
           stale_addrs == {punch_clients[c].udp_addr : c \in stale_ids}
       IN /\ punch_clients' =
                [c \in (DOMAIN punch_clients) \ stale_ids |-> punch_clients[c]]
          /\ addr_to_client' =
                [a \in (DOMAIN addr_to_client) \ stale_addrs |-> addr_to_client[a]]
    /\ next_tick' = now + CLEANUP_EVERY
    /\ rx' = Woke("tick", NoAddr, <<>>)
    /\ sent' = <<>>
    /\ UNCHANGED <<now, dirVars, relayVars, taskVars>>

\* recv_from returned an error: the iteration ends there.
PunchRecvError ==
    /\ RecvBranchPolled
    /\ rx' = Woke("error", NoAddr, <<>>)
    /\ sent' = <<>>
    /\ UNCHANGED <<punch_clients, addr_to_client, now, next_tick, dirVars, relayVars, taskVars>>

\* match punch_clients.get_mut(&client_id): the forward map after the probe.
ObserveForward(m, client_id, src, t) ==
    MapInsert(m, client_id, UdpClientState(src, t))

\* A faulty reverse-map update: the address a client moved away from stays.
ObserveReverse_KeepOld(m, rev, client_id, src) ==
    IF client_id \in DOMAIN m
    THEN IF m[client_id].udp_addr # src
         THEN MapInsert(rev, src, client_id)
         ELSE rev
    ELSE MapInsert(rev, src, client_id)

\* match punch_clients.get_mut(&client_id): the reverse map after the probe.
ObserveReverse(m, rev, client_id, src) ==
    IF client_id \in DOMAIN m
    THEN IF m[client_id].udp_addr # src
         THEN MapInsert(MapRemove(rev, m[client_id].udp_addr), src, client_id)
         ELSE rev
    ELSE MapInsert(rev, src, client_id)

\* A faulty pairing lookup: each side is told its own address.
PunchPairs_OwnAddress(registry, client_id) ==
    IF client_id \notin DOMAIN clients THEN None
    ELSE IF clients[client_id].room \notin DOMAIN rooms THEN None
    ELSE LET room == rooms[clients[client_id].room] IN
         IF room.client = None THEN None
         ELSE LET guest_id == Unwrap(room.client)
                  host_id == room.host
              IN IF host_id \notin DOMAIN registry THEN None
                 ELSE IF guest_id \notin DOMAIN registry THEN None
                 ELSE Some(<< <<registry[host_id].udp_addr, registry[host_id].udp_addr>>,
                              <<registry[guest_id].udp_addr, registry[guest_id].udp_addr>> >>)

\* The pairing lookup under the directory's read guard: the two (dst, peer)
\* pairs, or None where the code leaves the iteration with `continue`.
PunchPairs(registry, client_id) ==
    IF client_id \notin DOMAIN clients THEN None
    ELSE IF clients[client_id].room \notin DOMAIN rooms THEN None
    ELSE LET room == rooms[clients[client_id].room] IN
         IF room.client = None THEN None
         ELSE LET guest_id == Unwrap(room.client)
                  host_id == room.host
              IN IF host_id \notin DOMAIN registry THEN None
                 ELSE IF guest_id \notin DOMAIN registry THEN None
                 ELSE Some(<< <<registry[host_id].udp_addr, registry[guest_id].udp_addr>>,
                              <<registry[guest_id].udp_addr, registry[host_id].udp_addr>> >>)

\* What the iteration sends once the lookup is over. Every failed step of the
\* lookup is a `continue`, which leaves the loop body before either send.
PunchReplies(maybe_pairs, src) ==
    IF IsSome(maybe_pairs)
    THEN [i \in 1..2 |->
             Datagram(Unwrap(maybe_pairs)[i][1], encode_socket(Unwrap(maybe_pairs)[i][2]))]
    ELSE <<>>

\* The receive branch: one datagram from src.
PunchRecv(src, payload) ==
    /\ RecvBranchPolled
    /\ rx' = Woke("datagram", src, payload)
    /\ UNCHANGED <<now, next_tick, dirVars, relayVars, taskVars>>
    /\ LET parsed == parse_client_id(payload) IN
       IF parsed = None
       THEN /\ sent' = <<>>
            /\ UNCHANGED <<punch_clients, addr_to_client>>
       ELSE LET client_id == Unwrap(parsed)
                registry == ObserveForward(punch_clients, client_id, src, now)
            IN /\ punch_clients' = registry
               /\ addr_to_client' =
                     ObserveReverse(punch_clients, addr_to_client, client_id, src)
               /\ sent' = PunchReplies(PunchPairs(registry, client_id), src)

\* Time passes, up to instant t.
Advance(t) ==
    /\ t > now
    /\ now' = t
    /\ UNCHANGED <<punch_clients, addr_to_client, next_tick, rx, sent, dirVars, relayVars,
                   taskVars>>

PunchNext ==
    \/ PunchSweep
    \/ PunchRecvError
    \/ \E src \in Addrs, payload \in PunchPayloads : PunchRecv(src, payload)
    \/ \E t \in Instants : Advance(t)

(***************************************************************************)
(* relay.rs: the wire codec and udp_server                                 *)
(***************************************************************************)
\* IncomingPacketType
Bind == 1
Relay == 3

\* OutgoingPacketType::FoundPeer of relay.rs
RelayFoundPeer == 1

\* encode_socket of relay.rs
RelayEncodeSocket(peer) ==
    <<RelayFoundPeer, peer.family>> \o peer.octets \o U16ToBeBytes(peer.port)

\* The datagrams that arrive on the relay socket: an empty one, a Bind of each
\* client, a Bind one byte short of an id, a datagram tagged 0x3 and one tagged
\* 0x2, each of the last two with one byte of content.
RelayPackets ==
    {<<>>}
        \cup {<<1>> \o IdBytes(c) : c \in PunchIds}
        \cup {<<1>> \o SubSeq(IdBytes(1), 1, IdLen - 1), <<3, 170>>, <<2, 170>>}

\* The registry starts empty and the loop runs.
RelayInit ==
    /\ udp_addrs = EmptyMap
    /\ udp_addr_to_client = EmptyMap
    /\ relay_running = TRUE
    /\ relay_rx = Woke("none", NoAddr, <<>>)
    /\ relay_sent = <<>>

\* sock.recv_from(&mut rx).await? : the error leaves udp_server.
RelayRecvError ==
    /\ relay_running
    /\ relay_running' = FALSE
    /\ relay_rx' = Woke("error", NoAddr, <<>>)
    /\ relay_sent' = <<>>
    /\ UNCHANGED <<udp_addrs, udp_addr_to_client, punchVars, dirVars, taskVars>>

\* Bind, "Register/update address": udp_addrs after remove and re-insert.
BindForward(m, client_id, src, t) ==
    IF client_id \in DOMAIN m
    THEN MapInsert(MapRemove(m, client_id), client_id,
                   UdpClientState(IF m[client_id].udp_addr # src THEN src
                                  ELSE m[client_id].udp_addr, t))
    ELSE MapInsert(m, client_id, UdpClientState(src, t))

\* Bind, "Register/update address": addr_to_client.
BindReverse(m, rev, client_id, src) ==
    IF client_id \in DOMAIN m
    THEN IF m[client_id].udp_addr # src
         THEN MapInsert(MapRemove(rev, m[client_id].udp_addr), src, client_id)
         ELSE rev
    ELSE MapInsert(rev, src, client_id)

\* Bind: the pairing lookup under the room_state and udp_state read guards, None
\* where the code leaves the iteration with `continue`.
BindPairs(registry, client_id) ==
    IF client_id \notin DOMAIN clients THEN None
    ELSE IF clients[client_id].room \notin DOMAIN rooms THEN None
    ELSE LET room == rooms[clients[client_id].room] IN
         IF room.client = None THEN None
         ELSE LET guest_id == Unwrap(room.client)
                  host_id == room.host
              IN IF host_id \notin DOMAIN registry THEN None
                 ELSE IF guest_id \notin DOMAIN registry THEN None
                 ELSE Some(<< <<registry[host_id].udp_addr, registry[guest_id].udp_addr>>,
                              <<registry[guest_id].udp_addr, registry[host_id].udp_addr>> >>)

\* Bind: what is sent once the lookup is over; a failed lookup has already left
\* the iteration.
BindReplies(maybe_pairs, src) ==
    IF IsSome(maybe_pairs)
    THEN [i \in 1..2 |->
             Datagram(Unwrap(maybe_pairs)[i][1], RelayEncodeSocket(Unwrap(maybe_pairs)[i][2]))]
    ELSE <<>>

\* Relay: udp_addrs after the lookup block. The sender's last_seen is refreshed
\* as soon as its entry is found, whatever the rest of the lookup gives.
RelayTouch(m, rev, src, t) ==
    IF src \notin DOMAIN rev THEN m
    ELSE IF rev[src] \notin DOMAIN m THEN m
    ELSE [m EXCEPT ![rev[src]].last_seen = t]

\* Relay: the peer's address, None where the code leaves the iteration with
\* `continue`.
RelayPeerAddr(m, rev, src) ==
    IF src \notin DOMAIN rev THEN None
    ELSE IF rev[src] \notin DOMAIN m THEN None
    ELSE IF get_peer(rev[src]) = None THEN None
    ELSE IF Unwrap(get_peer(rev[src])) \notin DOMAIN m THEN None
    ELSE Some(m[Unwrap(get_peer(rev[src]))].udp_addr)

\* A faulty forward: the tag byte is stripped.
RelayForward_StripTag(pkt, peer_addr) ==
    IF IsSome(peer_addr) THEN <<Datagram(Unwrap(peer_addr), Tail(pkt))>> ELSE <<>>

\* Relay: sock.send_to(&rx[..n], peer_addr)
RelayForward(pkt, peer_addr) ==
    IF IsSome(peer_addr) THEN <<Datagram(Unwrap(peer_addr), pkt)>> ELSE <<>>

\* One datagram pkt from src.
RelayRecv(src, pkt) ==
    /\ relay_running
    /\ relay_rx' = Woke("datagram", src, pkt)
    /\ UNCHANGED <<relay_running, punchVars, dirVars, taskVars>>
    /\ IF Len(pkt) < 1
       THEN /\ relay_sent' = <<>>
            /\ UNCHANGED <<udp_addrs, udp_addr_to_client>>
       ELSE IF pkt[1] = Bind
       THEN LET parsed == parse_client_id(Tail(pkt)) IN
            IF parsed = None
            THEN /\ relay_sent' = <<>>
                 /\ UNCHANGED <<udp_addrs, udp_addr_to_client>>
            ELSE LET client_id == Unwrap(parsed)
                     registry == BindForward(udp_addrs, client_id, src, now)
                 IN /\ udp_addrs' = registry
                    /\ udp_addr_to_client' =
                          BindReverse(udp_addrs, udp_addr_to_client, client_id, src)
                    /\ relay_sent' = BindReplies(BindPairs(registry, client_id), src)
       ELSE IF pkt[1] = Relay
       THEN /\ udp_addrs' = RelayTouch(udp_addrs, udp_addr_to_client, src, now)
            /\ UNCHANGED udp_addr_to_client
            /\ relay_sent' =
                  RelayForward(pkt, RelayPeerAddr(udp_addrs, udp_addr_to_client, src))
       ELSE /\ relay_sent' = <<>>
            /\ UNCHANGED <<udp_addrs, udp_addr_to_client>>

\* One iteration of udp_server's loop.
RelayIteration ==
    \/ RelayRecvError
    \/ \E src \in Addrs, pkt \in RelayPackets : RelayRecv(src, pkt)

(***************************************************************************)
(* The tasks step by step: every .await of the two UDP loops and of the    *)
(* session-control handlers is a step of its own, and the guards of the    *)
(* two RwLocks are taken and dropped where the code takes and drops them.  *)
(***************************************************************************)
NoPunchLocal == [client_id |-> 0, pairs |-> None, i |-> 0]
NoRelayLocal ==
    [client_id |-> 0, src |-> NoAddr, pkt |-> <<>>, pairs |-> None, peer_addr |-> NoAddr,
     i |-> 0]

\* No guard is held and both loops wait in recv_from.
TaskInit ==
    /\ inner = [writer |-> FALSE, readers |-> {}, queue |-> <<>>]
    /\ udp_state = "none"
    /\ pc = [punch |-> "recv", relay |-> "recv", handler |-> "idle"]
    /\ punch_local = NoPunchLocal
    /\ relay_local = NoRelayLocal

\* The address each client sends from while the tasks are followed step by
\* step.
HomeAddr(c) == CHOOSE a \in Addrs : a.family = (IF c = 1 THEN 4 ELSE 6)

\* The probes on the punch socket: each client's id from its address, and a
\* probe one byte short.
TaskProbes ==
    {<<HomeAddr(c), IdBytes(c)>> : c \in PunchIds}
        \cup {<<HomeAddr(1), SubSeq(IdBytes(1), 1, IdLen - 1)>>}

\* The datagrams on the relay socket: each client's Bind and a datagram tagged
\* 0x3 from its address, and an empty datagram.
TaskPackets ==
    {<<HomeAddr(c), <<1>> \o IdBytes(c)>> : c \in PunchIds}
        \cup {<<HomeAddr(c), <<3, 170>> >> : c \in PunchIds}
        \cup {<<HomeAddr(1), <<>> >>}

\* read().await / write().await on the directory's RwLock: the task joins the
\* lock's queue of waiters.
Enqueue(lock, task) == [lock EXCEPT !.queue = Append(@, task)]

\* A lock that serves its waiters in any order.
FirstInQueue_AnyOrder(task) == TRUE

\* tokio's RwLock is fair: waiters are served in the order they asked, so a
\* reader that asks after a writer waits behind it.
FirstInQueue(task) == inner.queue # <<>> /\ Head(inner.queue) = task

\* The queue once the task got its guard.
Dequeue(queue, task) ==
    SelectSeq(queue, LAMBDA t : t # task)

\* RwLock::read().await returns once the task's turn has come and no writer
\* holds the lock.
ReadGranted(task) == FirstInQueue(task) /\ ~inner.writer

\* RwLock::write().await returns once the task's turn has come and nobody
\* holds the lock.
WriteGranted(task) == FirstInQueue(task) /\ ~inner.writer /\ inner.readers = {}

\* udp_state.read().await / udp_state.write().await of the relay, the only
\* task that uses this lock: granted when the task holds no guard of it.
UdpGranted == udp_state = "none"

\* punch_coordinator: recv_from returned a datagram; the registry is updated
\* and the loop goes on to st.inner.read().await.
TaskPunchRecv(src, payload) ==
    /\ pc.punch = "recv"
    /\ RecvBranchPolled
    /\ sent' = <<>>
    /\ LET parsed == parse_client_id(payload) IN
       IF parsed = None
       THEN UNCHANGED <<punch_clients, addr_to_client, pc, punch_local, inner>>
       ELSE LET client_id == Unwrap(parsed) IN
            /\ punch_clients' = ObserveForward(punch_clients, client_id, src, now)
            /\ addr_to_client' =
                  ObserveReverse(punch_clients, addr_to_client, client_id, src)
            /\ pc' = [pc EXCEPT !.punch = "read_inner"]
            /\ punch_local' = [NoPunchLocal EXCEPT !.client_id = client_id]
            /\ inner' = Enqueue(inner, "punch")
    /\ UNCHANGED <<now, next_tick, rx, dirVars, relayVars, udp_state, relay_local>>

\* punch_coordinator: st.inner.read().await is granted.
TaskPunchReadInner ==
    /\ pc.punch = "read_inner"
    /\ ReadGranted("punch")
    /\ inner' = [inner EXCEPT !.readers = @ \cup {"punch"},
                              !.queue = Dequeue(@, "punch")]
    /\ pc' = [pc EXCEPT !.punch = "lookup"]
    /\ UNCHANGED <<punchVars, dirVars, relayVars, udp_state, punch_local, relay_local>>

\* A faulty scope: the read guard outlives the lookup block.
PunchDropInner_Held(readers) == readers

\* punch_coordinator: the read guard is dropped where the lookup block ends, by
\* `continue` or by its last expression.
PunchDropInner(readers) == readers \ {"punch"}

\* punch_coordinator: the lookup under the read guard.
TaskPunchLookup ==
    /\ pc.punch = "lookup"
    /\ inner' = [inner EXCEPT !.readers = PunchDropInner(@)]
    /\ LET maybe_pairs == PunchPairs(punch_clients, punch_local.client_id) IN
       IF maybe_pairs = None
       THEN /\ pc' = [pc EXCEPT !.punch = "recv"]
            /\ punch_local' = NoPunchLocal
       ELSE /\ pc' = [pc EXCEPT !.punch = "send"]
            /\ punch_local' = [punch_local EXCEPT !.pairs = maybe_pairs, !.i = 1]
    /\ UNCHANGED <<punchVars, dirVars, relayVars, udp_state, relay_local>>

\* punch_coordinator: one sock.send_to(pkt, dst).await of the loop over pairs.
TaskPunchSend ==
    /\ pc.punch = "send"
    /\ LET pair == Unwrap(punch_local.pairs)[punch_local.i] IN
       sent' = Append(sent, Datagram(pair[1], encode_socket(pair[2])))
    /\ IF punch_local.i = 2
       THEN /\ pc' = [pc EXCEPT !.punch = "recv"]
            /\ punch_local' = NoPunchLocal
       ELSE /\ punch_local' = [punch_local EXCEPT !.i = 2]
            /\ UNCHANGED pc
    /\ UNCHANGED <<punch_clients, addr_to_client, now, next_tick, rx, dirVars, relayVars,
                   inner, udp_state, relay_local>>

\* udp_server: recv_from(..).await? returned an error.
TaskRelayRecvError ==
    /\ pc.relay = "recv"
    /\ relay_running' = FALSE
    /\ relay_sent' = <<>>
    /\ pc' = [pc EXCEPT !.relay = "done"]
    /\ UNCHANGED <<udp_addrs, udp_addr_to_client, relay_rx, punchVars, dirVars, inner,
                   udp_state, punch_local, relay_local>>

\* udp_server: recv_from returned a datagram. A Bind registers under the write
\* guard of udp_state and goes on to room_state.read().await; a Relay takes the
\* write guard of udp_state, refreshes the sender and, still holding that
\* guard, goes on to room_state.read().await.
TaskRelayRecv(src, pkt) ==
    /\ pc.relay = "recv"
    /\ relay_sent' = <<>>
    /\ UNCHANGED <<relay_running, relay_rx, punchVars, dirVars, punch_local>>
    /\ IF Len(pkt) < 1
       THEN UNCHANGED <<udp_addrs, udp_addr_to_client, udp_state, pc, relay_local, inner>>
       ELSE IF pkt[1] = Bind
       THEN LET parsed == parse_client_id(Tail(pkt)) IN
            IF parsed = None
            THEN UNCHANGED <<udp_addrs, udp_addr_to_client, udp_state, pc, relay_local, inner>>
            ELSE LET client_id == Unwrap(parsed) IN
                 /\ UdpGranted
                 /\ inner' = Enqueue(inner, "relay")
                 /\ udp_addrs' = BindForward(udp_addrs, client_id, src, now)
                 /\ udp_addr_to_client' =
                       BindReverse(udp_addrs, udp_addr_to_client, client_id, src)
                 /\ pc' = [pc EXCEPT !.relay = "bind_read_room"]
                 /\ relay_local' =
                       [NoRelayLocal EXCEPT !.client_id = client_id, !.src = src, !.pkt = pkt]
                 /\ UNCHANGED udp_state
       ELSE IF pkt[1] = Relay
       THEN /\ UdpGranted
            /\ IF src \notin DOMAIN udp_addr_to_client
               THEN UNCHANGED <<udp_addrs, udp_addr_to_client, udp_state, pc, relay_local,
                                inner>>
               ELSE IF udp_addr_to_client[src] \notin DOMAIN udp_addrs
               THEN UNCHANGED <<udp_addrs, udp_addr_to_client, udp_state, pc, relay_local,
                                inner>>
               ELSE /\ inner' = Enqueue(inner, "relay")
                    /\ udp_addrs' = RelayTouch(udp_addrs, udp_addr_to_client, src, now)
                    /\ udp_state' = "write"
                    /\ pc' = [pc EXCEPT !.relay = "relay_read_room"]
                    /\ relay_local' =
                          [NoRelayLocal EXCEPT !.client_id = udp_addr_to_client[src],
                                               !.src = src, !.pkt = pkt]
                    /\ UNCHANGED udp_addr_to_client
       ELSE UNCHANGED <<udp_addrs, udp_addr_to_client, udp_state, pc, relay_local, inner>>

\* udp_server, Bind: room_state.read().await is granted.
TaskBindReadRoom ==
    /\ pc.relay = "bind_read_room"
    /\ ReadGranted("relay")
    /\ inner' = [inner EXCEPT !.readers = @ \cup {"relay"},
                              !.queue = Dequeue(@, "relay")]
    /\ pc' = [pc EXCEPT !.relay = "bind_lookup"]
    /\ UNCHANGED <<punchVars, dirVars, relayVars, udp_state, punch_local, relay_local>>

\* udp_server: a room_state read guard is dropped where its block ends.
RelayDropRoom(readers) == readers \ {"relay"}

\* udp_server, Bind: udp_state.read() and the lookup under both read guards.
TaskBindLookup ==
    /\ pc.relay = "bind_lookup"
    /\ UdpGranted
    /\ inner' = [inner EXCEPT !.readers = RelayDropRoom(@)]
    /\ LET maybe_pairs == BindPairs(udp_addrs, relay_local.client_id) IN
       IF maybe_pairs = None
       THEN /\ pc' = [pc EXCEPT !.relay = "recv"]
            /\ relay_local' = NoRelayLocal
       ELSE /\ pc' = [pc EXCEPT !.relay = "bind_send"]
            /\ relay_local' = [relay_local EXCEPT !.pairs = maybe_pairs, !.i = 1]
    /\ UNCHANGED <<punchVars, dirVars, relayVars, udp_state, punch_local>>

\* udp_server, Bind: one sock.send_to(pkt, dst).await of the loop over pairs.
TaskBindSend ==
    /\ pc.relay = "bind_send"
    /\ LET pair == Unwrap(relay_local.pairs)[relay_local.i] IN
       relay_sent' = Append(relay_sent, Datagram(pair[1], RelayEncodeSocket(pair[2])))
    /\ IF relay_local.i = 2
       THEN /\ pc' = [pc EXCEPT !.relay = "recv"]
            /\ relay_local' = NoRelayLocal
       ELSE /\ relay_local' = [relay_local EXCEPT !.i = 2]
            /\ UNCHANGED pc
    /\ UNCHANGED <<udp_addrs, udp_addr_to_client, relay_running, relay_rx, punchVars,
                   dirVars, inner, udp_state, punch_local>>

\* udp_server, Relay: room_state.read().await is granted while the write guard
\* of udp_state is held.
TaskRelayReadRoom ==
    /\ pc.relay = "relay_read_room"
    /\ ReadGranted("relay")
    /\ inner' = [inner EXCEPT !.readers = @ \cup {"relay"},
                              !.queue = Dequeue(@, "relay")]
    /\ pc' = [pc EXCEPT !.relay = "relay_peer"]
    /\ UNCHANGED <<punchVars, dirVars, relayVars, udp_state, punch_local, relay_local>>

\* udp_server, Relay: get_peer under the read guard, which the inner block
\* drops, then the peer's entry; the outer block drops the udp_state guard.
TaskRelayPeer ==
    /\ pc.relay = "relay_peer"
    /\ inner' = [inner EXCEPT !.readers = RelayDropRoom(@)]
    /\ udp_state' = "none"
    /\ LET peer_addr == RelayPeerAddr(udp_addrs, udp_addr_to_client, relay_local.src) IN
       IF peer_addr = None
       THEN /\ pc' = [pc EXCEPT !.relay = "recv"]
            /\ relay_local' = NoRelayLocal
       ELSE /\ pc' = [pc EXCEPT !.relay = "relay_send"]
            /\ relay_local' = [relay_local EXCEPT !.peer_addr = Unwrap(peer_addr)]
    /\ UNCHANGED <<punchVars, dirVars, relayVars, punch_local>>

\* udp_server, Relay: sock.send_to(&rx[..n], peer_addr).await
TaskRelaySend ==
    /\ pc.relay = "relay_send"
    /\ relay_sent' = RelayForward(relay_local.pkt, Some(relay_local.peer_addr))
    /\ pc' = [pc EXCEPT !.relay = "recv"]
    /\ relay_local' = NoRelayLocal
    /\ UNCHANGED <<udp_addrs, udp_addr_to_client, relay_running, relay_rx, punchVars,
                   dirVars, inner, udp_state, punch_local>>

\* A session-control request arrives: its handler starts with
\* state.inner.write().await.
TaskHandlerRequest ==
    /\ pc.handler = "idle"
    /\ pc' = [pc EXCEPT !.handler = "write_inner"]
    /\ inner' = Enqueue(inner, "handler")
    /\ UNCHANGED <<punchVars, dirVars, relayVars, udp_state, punch_local, relay_local>>

\* A session-control handler: state.inner.write().await is granted.
TaskHandlerWrite ==
    /\ pc.handler = "write_inner"
    /\ WriteGranted("handler")
    /\ inner' = [inner EXCEPT !.writer = TRUE, !.queue = Dequeue(@, "handler")]
    /\ pc' = [pc EXCEPT !.handler = "run"]
    /\ UNCHANGED <<punchVars, dirVars, relayVars, udp_state, punch_local, relay_local>>

\* A session-control handler runs under the write guard and returns, which
\* drops the guard. Client 1 creates the room, client 2 joins it and either
\* of them leaves.
TaskHandlerRun ==
    /\ pc.handler = "run"
    /\ inner.writer
    /\ \/ rooms = EmptyMap /\ create_room(<<1>>)
       \/ join_room(0, <<2>>)
       \/ \E c \in PunchIds : leave_room(<<c>>)
    /\ inner' = [inner EXCEPT !.writer = FALSE]
    /\ pc' = [pc EXCEPT !.handler = "idle"]
    /\ UNCHANGED <<punchVars, relayVars, udp_state, punch_local, relay_local>>

TaskNext ==
    \/ \E in \in TaskProbes : TaskPunchRecv(in[1], in[2])
    \/ TaskPunchReadInner
    \/ TaskPunchLookup
    \/ TaskPunchSend
    \/ TaskRelayRecvError
    \/ \E in \in TaskPackets : TaskRelayRecv(in[1], in[2])
    \/ TaskBindReadRoom
    \/ TaskBindLookup
    \/ TaskBindSend
    \/ TaskRelayReadRoom
    \/ TaskRelayPeer
    \/ TaskRelaySend
    \/ TaskHandlerRequest
    \/ TaskHandlerWrite
    \/ TaskHandlerRun

(***************************************************************************)
(* Specifications.                                                         *)
(***************************************************************************)
Init == DirInit /\ PunchInit /\ RelayInit /\ TaskInit

\* Session control alone: any client, up to MaxRooms rooms.
Next ==
    \/ \E req \in ClientStrings :
          /\ Cardinality(DOMAIN rooms) < MaxRooms
          /\ create_room(req)
          /\ UNCHANGED <<punchVars, relayVars, taskVars>>
    \/ \E room_id \in RoomIds, req \in ClientStrings :
          join_room(room_id, req) /\ UNCHANGED <<punchVars, relayVars, taskVars>>
    \/ \E req \in ClientStrings :
          leave_room(req) /\ UNCHANGED <<punchVars, relayVars, taskVars>>

Spec == Init /\ [][Next]_vars

\* The punch coordinator beside session control: the two probing clients share
\* one room, which either of them may create, join and leave.
PunchDirNext ==
    \/ \E c \in PunchIds :
          rooms = EmptyMap /\ create_room(<<c>>) /\ UNCHANGED <<punchVars, relayVars, taskVars>>
    \/ \E c \in PunchIds :
          join_room(0, <<c>>) /\ UNCHANGED <<punchVars, relayVars, taskVars>>
    \/ \E c \in PunchIds :
          leave_room(<<c>>) /\ UNCHANGED <<punchVars, relayVars, taskVars>>

SpecPunch == Init /\ [][PunchNext \/ PunchDirNext]_vars

\* The relay beside session control and the clock.
SpecRelay ==
    Init /\ [][RelayIteration \/ PunchDirNext \/ (\E t \in Instants : Advance(t))]_vars

\* The relay's task is never abandoned by the runtime, and datagrams keep
\* arriving: while the loop can take an iteration, it takes one.
SpecRelayLive == SpecRelay /\ WF_vars(RelayIteration)

\* The three kinds of task of main, followed from await point to await point.
SpecTasks == Init /\ [][TaskNext]_vars

\* What each task does once it has asked for a guard: take it when granted,
\* work under it, drop it and send.
PunchProgress == TaskPunchReadInner \/ TaskPunchLookup \/ TaskPunchSend
RelayProgress ==
    \/ TaskBindReadRoom
    \/ TaskBindLookup
    \/ TaskBindSend
    \/ TaskRelayReadRoom
    \/ TaskRelayPeer
    \/ TaskRelaySend
HandlerProgress == TaskHandlerWrite \/ TaskHandlerRun

\* The runtime polls every task that has been woken: a task that can go on
\* past an await does so.
SpecTasksLive ==
    /\ SpecTasks
    /\ WF_vars(PunchProgress)
    /\ WF_vars(RelayProgress)
    /\ WF_vars(HandlerProgress)

\* One iteration of the coordinator's loop, whichever branch select! takes.
PunchIteration ==
    \/ PunchSweep
    \/ PunchRecvError
    \/ \E src \in Addrs, payload \in PunchPayloads : PunchRecv(src, payload)

\* The coordinator's task is never abandoned by the runtime: while the loop can
\* take an iteration, it takes one.
SpecPunchLive == SpecPunch /\ WF_vars(PunchIteration)


(***************************************************************************)
(* Properties of the Session Directory.                                    *)
(***************************************************************************)
\* The room holds client c in its host or its guest slot.
Occupies(c, r) ==
    /\ r \in DOMAIN rooms
    /\ (rooms[r].host = c \/ rooms[r].client = Some(c))

Occupants(r) ==
    {rooms[r].host} \cup (IF IsSome(rooms[r].client) THEN {Unwrap(rooms[r].client)} ELSE {})

\* A step that is a session-control request of kind op with the given result.
Answered(op, result) == last'.op = op /\ last'.result = result

\* C1: in every reachable directory state each room has one host and at most
\* one guest, and every client record's room exists and holds that client as
\* its host or its guest.
C1_RecordedRoomHoldsClient ==
    /\ \A r \in DOMAIN rooms :
          /\ rooms[r].host \in ClientIds
          /\ rooms[r].client \in {None} \cup {Some(c) : c \in ClientIds}
    /\ \A c \in DOMAIN clients : Occupies(c, clients[c].room)

\* C2: no room has a guest equal to its host.
C2_GuestIsNotHost ==
    \A r \in DOMAIN rooms : rooms[r].client # Some(rooms[r].host)

\* C3: no client id occupies a slot in two different rooms.
C3_AtMostOneRoomPerClient ==
    \A c \in ClientIds : \A r1, r2 \in DOMAIN rooms :
        (Occupies(c, r1) /\ Occupies(c, r2)) => r1 = r2

\* C4: no leave_room call returns the Internal error.
C4_LeaveNeverInternal ==
    ~(last.op = "leave_room" /\ last.result = "Internal")

\* C5: create_room returns an id that no room had before the call and leaves
\* every room that existed before the call unchanged.
C5_CreateAllocatesFreshRoom ==
    [][Answered("create_room", "Ok") =>
          /\ Unwrap(last'.room) \notin DOMAIN rooms
          /\ \A r \in DOMAIN rooms : r \in DOMAIN rooms' /\ rooms'[r] = rooms[r]]_vars

\* C6: join_room on a room whose guest slot is occupied answers Conflict,
\* whoever calls, and leaves the rooms and clients maps as they were.
C6_JoinFullRoomConflicts ==
    [][(/\ last'.op = "join_room"
        /\ IsSome(last'.client)
        /\ Unwrap(last'.room) \in DOMAIN rooms
        /\ IsSome(rooms[Unwrap(last'.room)].client))
       => (/\ last'.result = "Conflict"
           /\ rooms' = rooms
           /\ clients' = clients)]_vars

\* C6 witness: a join_room on a full room was answered Conflict, the caller
\* having no client record at all (neither host nor guest of the room).
C6_Witness ==
    /\ last.op = "join_room"
    /\ last.result = "Conflict"
    /\ IsSome(last.client)
    /\ Unwrap(last.room) \in DOMAIN rooms
    /\ IsSome(rooms[Unwrap(last.room)].client)
    /\ Unwrap(last.client) \notin DOMAIN clients
    /\ ~Occupies(Unwrap(last.client), Unwrap(last.room))

\* C7: a successful leave_room(c) clears the guest slot when c is the guest of
\* its recorded room, promotes the guest when c is the host and a guest is
\* present, deletes the room when c is the host and there is no guest; it
\* removes c's client record and changes no other room and no other record.
C7_LeaveEffect ==
    [][Answered("leave_room", "Ok") =>
          LET c == Unwrap(last'.client) IN
          /\ c \in DOMAIN clients
          /\ clients[c].room \in DOMAIN rooms
          /\ LET r == clients[c].room
                 room == rooms[r]
             IN /\ (room.client = Some(c) \/ room.host = c)
                /\ (room.client = Some(c) =>
                       /\ r \in DOMAIN rooms'
                       /\ rooms'[r] = RoomState(room.host, None))
                /\ ((room.host = c /\ IsSome(room.client)) =>
                       /\ r \in DOMAIN rooms'
                       /\ rooms'[r] = RoomState(Unwrap(room.client), None))
                /\ ((room.host = c /\ room.client = None) => r \notin DOMAIN rooms')
                /\ DOMAIN rooms' \subseteq DOMAIN rooms
                /\ \A x \in DOMAIN rooms \ {r} :
                       x \in DOMAIN rooms' /\ rooms'[x] = rooms[x]
                /\ clients' = MapRemove(clients, c)]_vars

\* C7 witness: a host has just left a room that had a guest, and the guest now
\* hosts it alone while another room exists beside it.
C7_Witness ==
    /\ last.op = "leave_room"
    /\ last.result = "Ok"
    /\ Unwrap(last.client) \notin DOMAIN clients
    /\ \E r \in DOMAIN rooms, g \in DOMAIN clients :
          /\ g # Unwrap(last.client)
          /\ clients[g].room = r
          /\ rooms[r] = RoomState(g, None)
    /\ Cardinality(DOMAIN rooms) > 1

\* C8: get_peer(c) is None exactly when c has no record, its recorded room
\* does not exist or that room has a single occupant; otherwise it is the
\* other occupant of c's room, a client id different from c.
C8_GetPeerIsOtherOccupant ==
    \A c \in ClientIds :
        LET known == c \in DOMAIN clients /\ clients[c].room \in DOMAIN rooms
            paired == known /\ Cardinality(Occupants(clients[c].room)) = 2
        IN /\ (get_peer(c) = None) <=> ~paired
           /\ paired =>
                 /\ c \in Occupants(clients[c].room)
                 /\ get_peer(c) \in {Some(p) : p \in Occupants(clients[c].room) \ {c}}

\* C9: every existing room has an occupant whose client record points to it,
\* so the rooms map is empty once the clients map is.
C9_RoomHasRecordedOccupant ==
    /\ \A r \in DOMAIN rooms :
          \E c \in DOMAIN clients : clients[c].room = r /\ Occupies(c, r)
    /\ (DOMAIN clients = {} => DOMAIN rooms = {})

(***************************************************************************)
(* Properties of the punch coordinator.                                    *)
(***************************************************************************)
\* After the probe: client c has no pairing the coordinator can answer with,
\* because c has no client record, its room is missing, the room has no guest,
\* or the host or the guest has no entry in the punch registry.
PunchUnresolved(c) ==
    \/ c \notin DOMAIN clients
    \/ clients[c].room \notin DOMAIN rooms
    \/ rooms[clients[c].room].client = None
    \/ rooms[clients[c].room].host \notin DOMAIN punch_clients'
    \/ Unwrap(rooms[clients[c].room].client) \notin DOMAIN punch_clients'

\* C10: a well-formed probe (16 bytes or more) whose pairing is unresolved is
\* answered with exactly one datagram, the single byte WaitingPeer (0x2), sent
\* to the probe's source address.
C10_UnresolvedProbeGetsWaiting ==
    [][\A src \in Addrs, payload \in PunchPayloads :
          (/\ PunchRecv(src, payload)
           /\ Len(payload) >= 16
           /\ PunchUnresolved(Unwrap(parse_client_id(payload))))
          => sent' = <<Datagram(src, <<2>>)>>]_vars

\* The FoundPeer datagram that tells of address a: the tag 0x1, the family
\* byte, the address octets and the port, high byte first.
FoundPeerBytes(a) == <<1, a.family>> \o a.octets \o <<a.port \div 256, a.port % 256>>

\* The address of client x's most recent probe, at a probe of client_id from src.
ProbedAddr(x, client_id, src) ==
    IF x = client_id THEN src ELSE punch_clients[x].udp_addr

\* C11: a well-formed probe from a client whose room has a host and a guest,
\* both with an entry in the punch registry once the probe is registered, is
\* answered with exactly two datagrams and no WaitingPeer: a FoundPeer with the
\* guest's address to the host's address and a FoundPeer with the host's
\* address to the guest's address, the addresses being those of each client's
\* most recent probe.
C11_PairedProbeGetsFoundPeer ==
    [][\A src \in Addrs, payload \in PunchPayloads :
          (/\ PunchRecv(src, payload)
           /\ Len(payload) >= 16
           /\ ~PunchUnresolved(Unwrap(parse_client_id(payload))))
          => LET client_id == Unwrap(parse_client_id(payload))
                 room == rooms[clients[client_id].room]
                 host_addr == ProbedAddr(room.host, client_id, src)
                 guest_addr == ProbedAddr(Unwrap(room.client), client_id, src)
                 to_host == Datagram(host_addr, FoundPeerBytes(guest_addr))
                 to_guest == Datagram(guest_addr, FoundPeerBytes(host_addr))
             IN /\ sent' \in {<<to_host, to_guest>>, <<to_guest, to_host>>}
                /\ punch_clients'[client_id].udp_addr = src]_vars

\* C11 witness: the last probe came from a client whose room has a host and a
\* guest registered under different addresses, and two datagrams went out.
C11_Witness ==
    /\ rx.kind = "datagram"
    /\ Len(sent) = 2
    /\ sent[1].dst # sent[2].dst
    /\ \E r \in DOMAIN rooms :
          /\ IsSome(rooms[r].client)
          /\ rooms[r].host # Unwrap(rooms[r].client)
          /\ rooms[r].host \in DOMAIN punch_clients
          /\ Unwrap(rooms[r].client) \in DOMAIN punch_clients
          /\ punch_clients[rooms[r].host].udp_addr = sent[1].dst
          /\ punch_clients[Unwrap(rooms[r].client)].udp_addr = sent[2].dst

\* C14: the punch registry's forward and reverse maps agree: client c has a
\* forward entry with address a exactly when the reverse map sends a to c.
C14_ForwardReverseConsistent ==
    \A c \in PunchIds, a \in Addrs :
        (c \in DOMAIN punch_clients /\ punch_clients[c].udp_addr = a)
            <=> (a \in DOMAIN addr_to_client /\ addr_to_client[a] = c)

\* C15: when a client already in the punch registry probes from a new address,
\* afterwards its forward entry holds the new address, the reverse map sends
\* the new address to the client, and the reverse map has no entry for the
\* old address.
C15_MigrationMovesBothMaps ==
    [][\A src \in Addrs, payload \in PunchPayloads :
          (/\ PunchRecv(src, payload)
           /\ parse_client_id(payload) # None
           /\ Unwrap(parse_client_id(payload)) \in DOMAIN punch_clients
           /\ punch_clients[Unwrap(parse_client_id(payload))].udp_addr # src)
          => LET client_id == Unwrap(parse_client_id(payload))
                 old == punch_clients[client_id].udp_addr
             IN /\ punch_clients'[client_id].udp_addr = src
                /\ src \in DOMAIN addr_to_client'
                /\ addr_to_client'[src] = client_id
                /\ old \notin DOMAIN addr_to_client']_vars

\* C15 witness: before any sweep was due, the last probe moved its client to
\* the probe's source, and the address it left, still the registered address
\* of the other client, is gone from the reverse map.
C15_Witness ==
    /\ now = 0
    /\ rx.kind = "datagram"
    /\ parse_client_id(rx.payload) # None
    /\ LET client_id == Unwrap(parse_client_id(rx.payload)) IN
       /\ punch_clients[client_id].udp_addr = rx.src
       /\ addr_to_client[rx.src] = client_id
       /\ \E other \in DOMAIN punch_clients :
             /\ other # client_id
             /\ punch_clients[other].udp_addr # rx.src
             /\ punch_clients[other].udp_addr \notin DOMAIN addr_to_client

\* C16: a sweep removes exactly the clients idle for more than 60 seconds,
\* together with the reverse entries of their addresses, and leaves the
\* forward entry and the reverse entry of every other client untouched.
C16_SweepRemovesOnlyStale ==
    [][PunchSweep =>
          LET stale == {c \in DOMAIN punch_clients : now - punch_clients[c].last_seen > 60} IN
          /\ DOMAIN punch_clients' = DOMAIN punch_clients \ stale
          /\ \A c \in DOMAIN punch_clients' : punch_clients'[c] = punch_clients[c]
          /\ \A a \in DOMAIN addr_to_client :
                IF addr_to_client[a] \in stale
                THEN a \notin DOMAIN addr_to_client'
                ELSE a \in DOMAIN addr_to_client' /\ addr_to_client'[a] = addr_to_client[a]
          /\ DOMAIN addr_to_client' \subseteq DOMAIN addr_to_client]_vars

\* C19: once the cleanup tick is due, the coordinator processes no datagram
\* and no receive error before the sweep has run, so a registry entry idle
\* for more than 60 seconds at a due tick is eventually removed, whatever
\* datagrams of other clients are waiting.
C19_SweepIsNotStarved ==
    /\ [][TimerReady =>
             ~(\/ PunchRecvError
               \/ \E src \in Addrs, payload \in PunchPayloads : PunchRecv(src, payload))]_vars
    /\ \A c \in PunchIds :
          (/\ c \in DOMAIN punch_clients
           /\ now - punch_clients[c].last_seen > 60
           /\ now >= next_tick)
             ~> (c \notin DOMAIN punch_clients)

\* C19 witness: the sweep has just run at second 61 and evicted a client while
\* the other client, idle for 60 seconds, keeps its entry.
C19_Witness ==
    /\ rx.kind = "tick"
    /\ now = 61
    /\ next_tick = 66
    /\ \E c \in PunchIds : 
          /\ DOMAIN punch_clients = {c}
          /\ punch_clients[c].last_seen = 1
          /\ DOMAIN clients = PunchIds

(***************************************************************************)
(* Properties of the relay.                                                *)
(***************************************************************************)
\* The relay can forward for the sender at src: src is bound to a client whose
\* Session Directory peer is bound too.
RelayRoute(src) ==
    /\ src \in DOMAIN udp_addr_to_client
    /\ IsSome(get_peer(udp_addr_to_client[src]))
    /\ Unwrap(get_peer(udp_addr_to_client[src])) \in DOMAIN udp_addrs

\* A step that receives a datagram with the given leading byte forwards it,
\* unchanged, in one datagram to the bound address of the sender's peer, and
\* sends nothing when the sender is unbound, has no peer or the peer is unbound.
RelayedToPeer(tag) ==
    \A src \in Addrs, pkt \in RelayPackets :
        (RelayRecv(src, pkt) /\ Len(pkt) >= 1 /\ pkt[1] = tag)
        => relay_sent' =
              IF RelayRoute(src)
              THEN <<Datagram(udp_addrs[Unwrap(get_peer(udp_addr_to_client[src]))].udp_addr,
                              pkt)>>
              ELSE <<>>

C13_BindIsAcknowledged ==
    [][\A src \in Addrs, pkt \in RelayPackets :
          (RelayRecv(src, pkt) /\ Len(pkt) >= 17 /\ pkt[1] = 1)
          => LET client_id == Unwrap(parse_client_id(Tail(pkt))) IN
             /\ client_id \in DOMAIN udp_addrs'
             /\ udp_addrs'[client_id].udp_addr = src
             /\ relay_sent' = <<Datagram(src, <<1>>)>>]_vars

\* C17: in both UDP engines a socket receive error or a malformed or short
\* packet affects only its own loop iteration: the loop does not terminate,
\* nothing is sent, and the registry and the directory are unchanged.
C17_ReceiveFailuresAreLocal ==
    [][/\ (\/ PunchRecvError
           \/ \E src \in Addrs, payload \in PunchPayloads :
                 PunchRecv(src, payload) /\ Len(payload) < 16)
          => (/\ sent' = <<>>
              /\ punch_clients' = punch_clients
              /\ addr_to_client' = addr_to_client
              /\ rooms' = rooms
              /\ clients' = clients)
       /\ (\/ RelayRecvError
           \/ \E src \in Addrs, pkt \in RelayPackets :
                 /\ RelayRecv(src, pkt)
                 /\ (Len(pkt) < 1 \/ (pkt[1] = 1 /\ Len(pkt) < 17)))
          => (/\ relay_running'
              /\ relay_sent' = <<>>
              /\ udp_addrs' = udp_addrs
              /\ udp_addr_to_client' = udp_addr_to_client
              /\ rooms' = rooms
              /\ clients' = clients)]_vars

\* The relay binding of client c has not been refreshed for more than 60
\* seconds.
RelayIdle(c) == c \in DOMAIN udp_addrs /\ now - udp_addrs[c].last_seen > 60

\* C20: the relay evicts idle bindings as the punch coordinator does: a
\* binding not refreshed for more than 60 seconds is eventually removed from
\* the relay registry (as long as the relay's loop is running).
C20_RelayEvictsIdleBindings ==
    \A c \in PunchIds : RelayIdle(c) ~> (~RelayIdle(c) \/ ~relay_running)

(***************************************************************************)
(* Properties of the tasks.                                                *)
(***************************************************************************)
\* C18: no UDP engine performs a socket send while it holds a guard of the
\* Session Directory: the guard is released before the send, so a
\* session-control writer is never kept out by network I/O.
C18_NoSendUnderDirectoryGuard ==
    [][/\ TaskPunchSend => "punch" \notin inner.readers
       /\ (TaskBindSend \/ TaskRelaySend) => "relay" \notin inner.readers]_vars

\* C18 witness: the punch coordinator has sent the first of its two FoundPeer
\* datagrams and the relay has forwarded a datagram, while a session-control
\* handler holds the directory's write guard.
C18_Witness ==
    /\ pc.punch = "send"
    /\ Len(sent) = 1
    /\ Len(relay_sent) = 1
    /\ relay_sent[1].pkt = <<3, 170>>
    /\ inner.writer
    /\ inner.readers = {}

Tasks == {"punch", "relay", "handler"}

\* Task t has asked for a guard of the directory and does not have it yet.
Waiting(t) == \E i \in 1..Len(inner.queue) : inner.queue[i] = t

\* Task t holds a guard of the directory.
Holding(t) == t \in inner.readers \/ (t = "handler" /\ inner.writer)

\* Task t cannot get its guard before task u has moved: u is ahead of t in
\* the queue, or u holds a guard that excludes the one t asked for; the relay
\* waits for itself where it asks for a guard of its registry that it holds.
WaitsFor(t, u) ==
    \/ /\ t # u
       /\ \E i, j \in 1..Len(inner.queue) :
             i < j /\ inner.queue[i] = u /\ inner.queue[j] = t
    \/ /\ t # u
       /\ Waiting(t)
       /\ Holding(u)
       /\ (t = "handler" \/ u = "handler")
    \/ /\ t = "relay"
       /\ u = "relay"
       /\ \/ pc.relay = "bind_lookup" /\ ~UdpGranted
          \/ Waiting("relay") /\ Holding("relay")

\* Some tasks wait on each other in a cycle.
CyclicWait ==
    \E t \in Tasks :
        \/ WaitsFor(t, t)
        \/ \E u \in Tasks : WaitsFor(t, u) /\ WaitsFor(u, t)
        \/ \E u, v \in Tasks : WaitsFor(t, u) /\ WaitsFor(u, v) /\ WaitsFor(v, t)

\* C21: the tasks never deadlock over the locks: no state is reached in which
\* tasks wait on each other cyclically, and every task that asks for a guard
\* of the directory (a handler for the write guard, the punch coordinator and
\* the relay's Bind and Relay paths for a read guard, the Relay path while it
\* holds the write guard of the relay's registry) eventually holds it.
C21_GuardsAreAlwaysGranted ==
    /\ []~CyclicWait
    /\ \A t \in Tasks : Waiting(t) ~> Holding(t)

\* C21 witness: the relay's Relay path holds the write guard of its registry
\* and a read guard of the directory, a handler waits for the write guard and
\* the punch coordinator waits for a read guard behind the handler.
C21_Witness ==
    /\ pc.relay = "relay_peer"
    /\ udp_state = "write"
    /\ inner.readers = {"relay"}
    /\ inner.queue = <<"handler", "punch">>

====
